---- MODULE Spec2Model ----
(***************************************************************************)
(* Model of NotionBlockMaker (src/make_notion_block.py): the markdown to   *)
(* block transducer (_split_into_sections, _convert_section_to_blocks,     *)
(* the _create_*_block builders), the chunked publisher                    *)
(* (_append_blocks_to_page) and the orchestrator                           *)
(* (create_blocks_from_markdown).                                          *)
(*                                                                         *)
(* A Python str is a sequence of one-character strings.  The remote page   *)
(* is the sequence of its children.                                        *)
(***************************************************************************)
EXTENDS Integers, Sequences, FiniteSets, TLC

VARIABLES
    pc,            \* position of the call: see the actions
    markdown,      \* argument markdown_content: [isStr, val]
    sections,      \* local `sections` of create_blocks_from_markdown
    blocks,        \* local `blocks` (argument `blocks` of the publisher)
    i,             \* loop variable of _append_blocks_to_page
    inFlight,      \* body ("children") of the request being awaited
    requests,      \* every request body issued so far, in order
    outcomes,      \* outcome of every completed request, in order
    page,          \* children of the remote page
    page0,         \* children of the remote page before the call
    appendResult,  \* return value of _append_blocks_to_page
    raisedIn,      \* step of the orchestrator's try body that raised
    result         \* return value of create_blocks_from_markdown

vars == <<pc, markdown, sections, blocks, i, inFlight, requests, outcomes,
          page, page0, appendResult, raisedIn, result>>

----------------------------------------------------------------------------
(* Bounds and program constants *)

MaxDocLen == 5

MaxLineLen == 5

MaxBlocks == 250

ChunkSize == 100

NL == "\n"

\* characters removed by str.strip() with no argument
Whitespace == {" ", "\t", NL, "\r", "\f"}

DocAlphabet == {"#", " ", "a", "-", NL}

LineAlphabet == {"#", " ", "-", "1", "2", ".", "a"}

\* response statuses the remote may answer with
Statuses == {199, 200, 201, 204, 299, 300, 400, 404, 500}

StrsUpTo(alphabet, n) == UNION {[1..k -> alphabet] : k \in 0..n}

----------------------------------------------------------------------------
(* Python string primitives *)

\* s.startswith(p)
StartsWith(s, p) == Len(s) >= Len(p) /\ SubSeq(s, 1, Len(p)) = p

\* s[k:]
From(s, k) == SubSeq(s, k + 1, Len(s))

RECURSIVE LStrip(_)
LStrip(s) ==
    IF s = <<>> THEN s
    ELSE IF Head(s) \in Whitespace THEN LStrip(Tail(s)) ELSE s

RECURSIVE RStrip(_)
RStrip(s) ==
    IF s = <<>> THEN s
    ELSE IF s[Len(s)] \in Whitespace THEN RStrip(SubSeq(s, 1, Len(s) - 1)) ELSE s

\* s.strip()
Strip(s) == RStrip(LStrip(s))

RECURSIVE SplitFrom(_, _, _)
SplitFrom(rest, done, cur) ==
    IF rest = <<>> THEN Append(done, cur)
    ELSE IF Head(rest) = NL
         THEN SplitFrom(Tail(rest), Append(done, cur), <<>>)
         ELSE SplitFrom(Tail(rest), done, Append(cur, Head(rest)))

\* s.split("\n"): always at least one element
StrSplit(s) == SplitFrom(s, <<>>, <<>>)

RECURSIVE StrJoin(_)
\* "\n".join(lines)
StrJoin(lines) ==
    IF lines = <<>> THEN <<>>
    ELSE IF Len(lines) = 1 THEN lines[1]
    ELSE lines[1] \o <<NL>> \o StrJoin(Tail(lines))

----------------------------------------------------------------------------
(* _split_into_sections *)

RECURSIVE SectionsLoop(_, _, _)
SectionsLoop(lines, secs, current) ==
    IF lines = <<>>
    THEN IF current # <<>> THEN Append(secs, StrJoin(current)) ELSE secs
    ELSE LET line == Head(lines)
             boundary == StartsWith(line, <<"#">>) /\ current # <<>>
         IN SectionsLoop(Tail(lines),
                         IF boundary THEN Append(secs, StrJoin(current)) ELSE secs,
                         Append(IF boundary THEN <<>> ELSE current, line))

\* the mutant: str.splitlines() in place of split("\n") ("" has no lines)
split_into_sections_splitlines(md) ==
    SectionsLoop(IF md = <<>> THEN <<>> ELSE StrSplit(md), <<>>, <<>>)

RECURSIVE SectionsLoopNoFlush(_, _, _)
SectionsLoopNoFlush(lines, secs, current) ==
    IF lines = <<>>
    THEN secs
    ELSE LET line == Head(lines)
             boundary == StartsWith(line, <<"#">>) /\ current # <<>>
         IN SectionsLoopNoFlush(Tail(lines),
                         IF boundary THEN Append(secs, StrJoin(current)) ELSE secs,
                         Append(IF boundary THEN <<>> ELSE current, line))

\* the mutant: the final flush after the loop is missing
split_into_sections_noflush(md) == SectionsLoopNoFlush(StrSplit(md), <<>>, <<>>)

split_into_sections(md) == SectionsLoop(StrSplit(md), <<>>, <<>>)

----------------------------------------------------------------------------
(* the block builders and _convert_section_to_blocks *)

Block(type, text) == [object |-> "block", type |-> type, content |-> Strip(text)]

create_heading_1_block(text) == Block("heading_1", text)

create_heading_2_block(text) == Block("heading_2", text)

create_heading_3_block(text) == Block("heading_3", text)

create_bullet_list_block(text) == Block("bulleted_list_item", text)

create_numbered_list_block(text) == Block("numbered_list_item", text)

create_paragraph_block(text) == Block("paragraph", text)

RECURSIVE LeadingHashes(_)
\* number of '#' characters the line begins with
LeadingHashes(line) ==
    IF line # <<>> /\ Head(line) = "#" THEN 1 + LeadingHashes(Tail(line)) ELSE 0

\* the mutant: headings by counting the leading hashes, any digit numbers
ConvertLineGeneralised(line) ==
    LET h == LeadingHashes(line)
    IN IF h >= 1 /\ StartsWith(From(line, h), <<" ">>)
       THEN Block(IF h = 1 THEN "heading_1" ELSE IF h = 2 THEN "heading_2"
                  ELSE "heading_3", From(line, h + 1))
       ELSE IF StartsWith(line, <<"-", " ">>)
            THEN create_bullet_list_block(From(line, 2))
       ELSE IF Len(line) >= 3 /\ line[1] \in {"1", "2"} /\ line[2] = "." /\ line[3] = " "
            THEN create_numbered_list_block(From(line, 3))
       ELSE create_paragraph_block(line)

\* the mutant: every line starting with '#' has its hashes removed
ConvertLineStripHashes(line) ==
    LET h == LeadingHashes(line)
    IN IF h = 1 THEN create_heading_1_block(From(line, h))
       ELSE IF h = 2 THEN create_heading_2_block(From(line, h))
       ELSE IF h >= 3 THEN create_heading_3_block(From(line, h))
       ELSE IF StartsWith(line, <<"-", " ">>)
            THEN create_bullet_list_block(From(line, 2))
       ELSE IF StartsWith(line, <<"1", ".", " ">>)
            THEN create_numbered_list_block(From(line, 3))
       ELSE create_paragraph_block(line)

\* the if/elif chain of the loop body, for one non-blank line
ConvertLine(line) ==
    IF StartsWith(line, <<"#", " ">>)
    THEN create_heading_1_block(From(line, 2))
    ELSE IF StartsWith(line, <<"#", "#", " ">>)
    THEN create_heading_2_block(From(line, 3))
    ELSE IF StartsWith(line, <<"#", "#", "#", " ">>)
    THEN create_heading_3_block(From(line, 4))
    ELSE IF StartsWith(line, <<"-", " ">>)
    THEN create_bullet_list_block(From(line, 2))
    ELSE IF StartsWith(line, <<"1", ".", " ">>)
    THEN create_numbered_list_block(From(line, 3))
    ELSE create_paragraph_block(line)

RECURSIVE LinesToBlocks(_)
LinesToBlocks(lines) ==
    IF lines = <<>> THEN <<>>
    ELSE IF Strip(Head(lines)) = <<>>
         THEN LinesToBlocks(Tail(lines))
         ELSE <<ConvertLine(Head(lines))>> \o LinesToBlocks(Tail(lines))

convert_section_to_blocks(section) == LinesToBlocks(StrSplit(section))

RECURSIVE ExtendAll(_)
\* blocks = []; for section in sections: blocks.extend(convert(section))
ExtendAll(secs) ==
    IF secs = <<>> THEN <<>>
    ELSE convert_section_to_blocks(Head(secs)) \o ExtendAll(Tail(secs))

\* the mutant: `blocks = ...` in place of `blocks.extend(...)`
SectionsToBlocksAssign(secs) ==
    IF secs = <<>> THEN <<>> ELSE convert_section_to_blocks(secs[Len(secs)])

SectionsToBlocks(secs) == ExtendAll(secs)

----------------------------------------------------------------------------
(* _append_blocks_to_page *)

Min(a, b) == IF a < b THEN a ELSE b

\* the mutant: the slice loses its last element
ChunkAtShort(bs, k) == SubSeq(bs, k + 1, Min(k + ChunkSize, Len(bs)) - 1)

\* blocks[k : k + 100]
ChunkAt(bs, k) == SubSeq(bs, k + 1, Min(k + ChunkSize, Len(bs)))

\* the mutant: any 2xx status passes
StatusOk2xx(status) == status \in 200..299

\* not (response.status_code != 200)
StatusOk(status) == status = 200

\* the remote endpoint: a request answered with a 2xx status has appended its
\* children to the page; any other request leaves the page unchanged
RemoteApply(children, status) ==
    IF status \in 200..299 THEN page \o children ELSE page

----------------------------------------------------------------------------
(* Initial states *)

NoneValue == [isStr |-> FALSE, val |-> <<>>]

Str(s) == [isStr |-> TRUE, val |-> s]

\* children already on the page when the call starts
ExistingChildren == {<<>>, <<create_paragraph_block(<<"o", "l", "d">>)>>}

RECURSIVE Digits(_)
Digits(n) ==
    IF n < 10 THEN <<(<<"0", "1", "2", "3", "4", "5", "6", "7", "8", "9">>)[n + 1]>>
    ELSE Digits(n \div 10) \o Digits(n % 10)

\* n distinct blocks: the paragraphs "1", "2", ..., "n"
NumberedBlocks(n) == [k \in 1..n |-> create_paragraph_block(Digits(k))]

Idle ==
    /\ sections = <<>>
    /\ blocks = <<>>
    /\ i = 0
    /\ inFlight = <<>>
    /\ requests = <<>>
    /\ outcomes = <<>>
    /\ page0 \in ExistingChildren
    /\ page = page0
    /\ appendResult = "none"
    /\ raisedIn = "none"
    /\ result = "none"

\* create_blocks_from_markdown(page_id, markdown_content) has been called
Init ==
    /\ pc = "convert_called"
    /\ markdown \in {Str(s) : s \in StrsUpTo(DocAlphabet, MaxDocLen)} \cup {NoneValue}
    /\ Idle

\* the same call with a one-line document over the classifier's alphabet
InitLine ==
    /\ pc = "convert_called"
    /\ markdown \in {Str(s) : s \in StrsUpTo(LineAlphabet, MaxLineLen)}
    /\ Idle

\* _append_blocks_to_page(page_id, blocks) has been called with n blocks
InitPublish ==
    /\ pc = "append_loop"
    /\ markdown = Str(<<>>)
    /\ sections = <<>>
    /\ blocks \in {NumberedBlocks(n) : n \in 0..MaxBlocks}
    /\ i = 0
    /\ inFlight = <<>>
    /\ requests = <<>>
    /\ outcomes = <<>>
    /\ page0 \in ExistingChildren
    /\ page = page0
    /\ appendResult = "none"
    /\ raisedIn = "none"
    /\ result = "none"

----------------------------------------------------------------------------
(* create_blocks_from_markdown *)

\* line 39 on a str
Split ==
    /\ pc = "convert_called"
    /\ markdown.isStr
    /\ sections' = split_into_sections(markdown.val)
    /\ pc' = "split_done"
    /\ UNCHANGED <<markdown, blocks, i, inFlight, requests, outcomes, page, page0,
                   appendResult, raisedIn, result>>

\* the mutant: no try/except around the body, the exception reaches the caller
OnExceptionPropagates == [pc |-> "raised", result |-> "none"]

\* except Exception: log and return False
OnException == [pc |-> "done", result |-> "false"]

\* line 39 on a value with no split method: AttributeError inside the try
SplitRaises ==
    /\ pc = "convert_called"
    /\ ~markdown.isStr
    /\ raisedIn' = "split"
    /\ pc' = OnException.pc
    /\ result' = OnException.result
    /\ UNCHANGED <<markdown, sections, blocks, i, inFlight, requests, outcomes,
                   page, page0, appendResult>>

\* lines 42-44
ConvertSections ==
    /\ pc = "split_done"
    /\ blocks' = SectionsToBlocks(sections)
    /\ pc' = "blocks_built"
    /\ UNCHANGED <<markdown, sections, i, inFlight, requests, outcomes, page, page0,
                   appendResult, raisedIn, result>>

\* line 47: the call of _append_blocks_to_page
CallAppend ==
    /\ pc = "blocks_built"
    /\ i' = 0
    /\ pc' = "append_loop"
    /\ UNCHANGED <<markdown, sections, blocks, inFlight, requests, outcomes, page,
                   page0, appendResult, raisedIn, result>>

\* line 47: return what the publisher returned
ConvertReturns ==
    /\ pc = "append_returned"
    /\ result' = appendResult
    /\ pc' = "done"
    /\ UNCHANGED <<markdown, sections, blocks, i, inFlight, requests, outcomes, page,
                   page0, appendResult, raisedIn>>

----------------------------------------------------------------------------
(* _append_blocks_to_page, one step per request and per outcome *)

\* lines 159-163: the next chunk is sent
SendChunk ==
    /\ pc = "append_loop"
    /\ i < Len(blocks)
    /\ inFlight' = ChunkAt(blocks, i)
    /\ requests' = Append(requests, ChunkAt(blocks, i))
    /\ pc' = "awaiting"
    /\ UNCHANGED <<markdown, sections, blocks, i, outcomes, page, page0,
                   appendResult, raisedIn, result>>

\* lines 165, 159: the response passes the status test, the loop goes on
ReceiveOk ==
    /\ pc = "awaiting"
    /\ \E status \in Statuses :
          /\ StatusOk(status)
          /\ page' = RemoteApply(inFlight, status)
          /\ outcomes' = Append(outcomes, [kind |-> "response", status |-> status])
    /\ inFlight' = <<>>
    /\ i' = i + ChunkSize
    /\ pc' = "append_loop"
    /\ UNCHANGED <<markdown, sections, blocks, requests, page0, appendResult,
                   raisedIn, result>>

\* the mutant: the failure is logged and the loop goes on
ReceiveErrorContinues ==
    /\ pc = "awaiting"
    /\ \E status \in Statuses :
          /\ ~StatusOk(status)
          /\ page' = RemoteApply(inFlight, status)
          /\ outcomes' = Append(outcomes, [kind |-> "response", status |-> status])
    /\ inFlight' = <<>>
    /\ i' = i + ChunkSize
    /\ pc' = "append_loop"
    /\ UNCHANGED <<markdown, sections, blocks, requests, page0, appendResult,
                   raisedIn, result>>

\* the mutant: the failed chunk is sent again
ReceiveErrorRetries ==
    /\ pc = "awaiting"
    /\ \E status \in Statuses :
          /\ ~StatusOk(status)
          /\ page' = RemoteApply(inFlight, status)
          /\ outcomes' = Append(outcomes, [kind |-> "response", status |-> status])
    /\ inFlight' = <<>>
    /\ pc' = "append_loop"
    /\ UNCHANGED <<markdown, sections, blocks, i, requests, page0, appendResult,
                   raisedIn, result>>

\* lines 165-167: the response fails the status test, return False
ReceiveError ==
    /\ pc = "awaiting"
    /\ \E status \in Statuses :
          /\ ~StatusOk(status)
          /\ page' = RemoteApply(inFlight, status)
          /\ outcomes' = Append(outcomes, [kind |-> "response", status |-> status])
    /\ inFlight' = <<>>
    /\ appendResult' = "false"
    /\ pc' = "append_returned"
    /\ UNCHANGED <<markdown, sections, blocks, i, requests, page0, raisedIn, result>>

\* lines 161, 171-173: requests.patch raises, the handler returns False
TransportFailure ==
    /\ pc = "awaiting"
    /\ outcomes' = Append(outcomes, [kind |-> "exception", status |-> 0])
    /\ inFlight' = <<>>
    /\ appendResult' = "false"
    /\ pc' = "append_returned"
    /\ UNCHANGED <<markdown, sections, blocks, i, requests, page, page0, raisedIn,
                   result>>

\* lines 159, 169: the range is exhausted, return True
LoopExit ==
    /\ pc = "append_loop"
    /\ i >= Len(blocks)
    /\ appendResult' = "true"
    /\ pc' = "append_returned"
    /\ UNCHANGED <<markdown, sections, blocks, i, inFlight, requests, outcomes, page,
                   page0, raisedIn, result>>

----------------------------------------------------------------------------
(* Specifications *)

Next ==
    \/ Split
    \/ SplitRaises
    \/ ConvertSections
    \/ CallAppend
    \/ SendChunk
    \/ ReceiveOk
    \/ ReceiveError
    \/ TransportFailure
    \/ LoopExit
    \/ ConvertReturns

Spec == Init /\ [][Next]_vars

NextLine ==
    \/ Split
    \/ ConvertSections

SpecLine == InitLine /\ [][NextLine]_vars

NextPublish ==
    \/ SendChunk
    \/ ReceiveOk
    \/ ReceiveError
    \/ TransportFailure
    \/ LoopExit

SpecPublish == InitPublish /\ [][NextPublish]_vars

----------------------------------------------------------------------------
(* Reference definitions used by the properties, independent of the        *)
(* operators above                                                         *)

NLPos(s) == {k \in 1..Len(s) : s[k] = NL}

KthNL(s, j) == CHOOSE k \in NLPos(s) : Cardinality({m \in NLPos(s) : m <= k}) = j

\* the lines of s: the maximal runs between line feeds
RefLines(s) ==
    LET n == Cardinality(NLPos(s)) + 1
    IN [j \in 1..n |->
          SubSeq(s,
                 IF j = 1 THEN 1 ELSE KthNL(s, j - 1) + 1,
                 IF j = n THEN Len(s) ELSE KthNL(s, j) - 1)]

RECURSIVE Flatten(_)
Flatten(seqs) == IF seqs = <<>> THEN <<>> ELSE Head(seqs) \o Flatten(Tail(seqs))

IsBlank(line) == \A k \in 1..Len(line) : line[k] \in {" ", "\t", "\n", "\r", "\f"}

NonBlank(line) == ~IsBlank(line)

\* s without its leading and trailing whitespace
RefTrim(s) ==
    LET keep == {k \in 1..Len(s) : s[k] \notin {" ", "\t", "\n", "\r", "\f"}}
    IN IF keep = {} THEN <<>>
       ELSE SubSeq(s, CHOOSE a \in keep : \A b \in keep : a <= b,
                      CHOOSE a \in keep : \A b \in keep : a >= b)

HasPrefix(s, p) == Len(s) >= Len(p) /\ \A k \in 1..Len(p) : s[k] = p[k]

After(s, n) == [k \in 1..(Len(s) - n) |-> s[n + k]]

\* the classifier of the specification: ordered rules, first match wins
RefClassify(line) ==
    CASE HasPrefix(line, <<"#", "#", "#", " ">>) -> <<"heading_3", After(line, 4)>>
      [] HasPrefix(line, <<"#", "#", " ">>) -> <<"heading_2", After(line, 3)>>
      [] HasPrefix(line, <<"#", " ">>) -> <<"heading_1", After(line, 2)>>
      [] HasPrefix(line, <<"-", " ">>) -> <<"bulleted_list_item", After(line, 2)>>
      [] HasPrefix(line, <<"1", ".", " ">>) -> <<"numbered_list_item", After(line, 3)>>
      [] OTHER -> <<"paragraph", line>>

RefBlock(line) ==
    [object |-> "block", type |-> RefClassify(line)[1],
     content |-> RefTrim(RefClassify(line)[2])]

HashRun(line) ==
    IF \A k \in 1..Len(line) : line[k] = "#" THEN Len(line)
    ELSE (CHOOSE k \in 1..Len(line) : line[k] # "#" /\ \A m \in 1..(k - 1) : line[m] = "#") - 1

\* text is taken from the part of the line behind its leading '#' markers
ExcludesMarkers(line, text) ==
    \E k \in HashRun(line)..Len(line) : text = RefTrim(After(line, k))

CeilDiv(n, d) == (n + d - 1) \div d

\* blocks [100*j, min(100*j + 100, n)) of the call, j from 0
ExpectedChunk(j) ==
    LET n == Len(blocks)
        size == IF n - 100 * j < 100 THEN n - 100 * j ELSE 100
    IN [k \in 1..size |-> blocks[100 * j + k]]

\* the request did not report success: a non-2xx response or a transport failure
Failed(o) == o.kind = "exception" \/ o.status \notin 200..299

Split_done == pc \notin {"convert_called", "raised"} /\ raisedIn = "none"

Blocks_built == Split_done /\ pc # "split_done"

TheLine == markdown.val

----------------------------------------------------------------------------
(* Properties *)

\* C1: in a publish call whose requests all report success, exactly
\* ceil(n/100) requests are issued, request j (from 0) carries blocks
\* [100j, min(100j+100, n)) in order, and a request is issued only once every
\* earlier request has completed; 250 blocks give chunks of 100, 100, 50.
C1_ChunksInOrder ==
    /\ Len(requests) = Len(outcomes) + (IF pc = "awaiting" THEN 1 ELSE 0)
    /\ pc = "awaiting" => inFlight = requests[Len(requests)]
    /\ \A j \in 1..Len(requests) : requests[j] = ExpectedChunk(j - 1)
    /\ (/\ pc = "append_returned"
        /\ \A k \in 1..Len(outcomes) :
              outcomes[k].kind = "response" /\ outcomes[k].status = 200)
       => /\ Len(requests) = CeilDiv(Len(blocks), 100)
          /\ Flatten(requests) = blocks
          /\ appendResult = "true"
          /\ Len(blocks) = 250 =>
                <<Len(requests[1]), Len(requests[2]), Len(requests[3])>> = <<100, 100, 50>>

C1_Witness ==
    /\ pc = "append_returned"
    /\ Len(blocks) = 250
    /\ Len(requests) = 3
    /\ appendResult = "true"

\* C2: once a request does not report success (non-success response or
\* transport failure) no later request is issued and publish returns false;
\* publish returns true only if every chunk was requested and succeeded.
C2_AbortOnFailure ==
    /\ \A k \in 1..Len(outcomes) :
          Failed(outcomes[k]) =>
             /\ k = Len(outcomes)
             /\ Len(requests) = k
             /\ pc = "append_returned"
             /\ appendResult = "false"
    /\ appendResult = "true" =>
          /\ Len(outcomes) = CeilDiv(Len(blocks), 100)
          /\ \A k \in 1..Len(outcomes) : ~Failed(outcomes[k])

C2_Witness ==
    /\ pc = "append_returned"
    /\ Len(blocks) = 250
    /\ Len(outcomes) = 2
    /\ outcomes[2].kind = "exception"
    /\ Len(requests) = 2
    /\ appendResult = "false"

AbortedAt(k) ==
    /\ k = Len(outcomes)
    /\ pc = "append_returned"
    /\ appendResult = "false"

\* C3 as stated: every 2xx response counts as success (publish goes on) and
\* every other status as failure (publish aborts with false).
C3_Any2xxSucceeds ==
    \A k \in 1..Len(outcomes) :
        outcomes[k].kind = "response" =>
            IF outcomes[k].status \in 200..299 THEN ~AbortedAt(k) ELSE AbortedAt(k)

\* C3 amended: a response counts as success exactly when its status is 200;
\* every other status, the other 2xx statuses included, aborts with false.
C3_Only200Succeeds ==
    \A k \in 1..Len(outcomes) :
        outcomes[k].kind = "response" =>
            IF outcomes[k].status = 200 THEN ~AbortedAt(k)
            ELSE AbortedAt(k) /\ Len(requests) = k

C3_Witness ==
    /\ outcomes # <<>>
    /\ outcomes[Len(outcomes)].kind = "response"
    /\ outcomes[Len(outcomes)].status \in (200..299) \ {200}
    /\ AbortedAt(Len(outcomes))

\* C4: the conversion never raises to its caller: it returns false when a
\* step raised, and otherwise exactly what the publisher returned.
C4_NeverRaises ==
    /\ pc # "raised"
    /\ pc = "done" =>
          /\ result \in {"true", "false"}
          /\ raisedIn # "none" => result = "false"
          /\ raisedIn = "none" => appendResult # "none" /\ result = appendResult
    /\ pc # "done" => result = "none"

C4_Witness ==
    /\ pc = "done"
    /\ raisedIn = "split"
    /\ result = "false"

\* C5: for a non-empty document the lines of the sections, concatenated in
\* section order, are exactly the lines of the document; a document with no
\* line starting with '#' yields one section, the whole document.
C5_SplitLossless ==
    (Split_done /\ markdown.val # <<>>) =>
        /\ Flatten([k \in 1..Len(sections) |-> RefLines(sections[k])])
             = RefLines(markdown.val)
        /\ (\A j \in 1..Len(RefLines(markdown.val)) :
               ~HasPrefix(RefLines(markdown.val)[j], <<"#">>))
           => sections = <<markdown.val>>

C5_Witness ==
    /\ Split_done
    /\ Len(sections) = 2
    /\ Len(RefLines(sections[1])) = 2
    /\ HasPrefix(sections[2], <<"#">>)

\* C6: the block sequence has exactly one block per non-blank line and none
\* for a blank line, and the k-th block is the one built from the k-th
\* non-blank line of the document.
C6_OneBlockPerLine ==
    Blocks_built =>
        LET nb == SelectSeq(RefLines(markdown.val), NonBlank)
        IN /\ Len(blocks) = Len(nb)
           /\ \A k \in 1..Len(nb) : blocks[k] = ConvertLine(nb[k])

C6_Witness ==
    /\ Blocks_built
    /\ Len(sections) = 2
    /\ Len(blocks) = 2
    /\ Len(RefLines(markdown.val)) = 3
    /\ blocks[1] # blocks[2]

\* C7: the block of every non-blank line is the one the reference classifier
\* gives (ordered rules "### ", "## ", "# ", "- ", "1. ", else paragraph,
\* text trimmed); "2. x" and four or more hashes or hashes without a space
\* are paragraphs.
C7_ClassifierMatchesReference ==
    (Blocks_built /\ NonBlank(TheLine)) =>
        /\ blocks = <<RefBlock(TheLine)>>
        /\ HasPrefix(TheLine, <<"2", ".", " ">>) =>
              blocks[1] = [object |-> "block", type |-> "paragraph",
                           content |-> RefTrim(TheLine)]
        /\ (HasPrefix(TheLine, <<"#">>)
              /\ (HashRun(TheLine) >= 4 \/ ~HasPrefix(After(TheLine, HashRun(TheLine)), <<" ">>)))
           => blocks[1].type = "paragraph"

C7_Witness ==
    /\ Blocks_built
    /\ TheLine = <<"#", "#", "#", " ", "a">>
    /\ blocks = <<[object |-> "block", type |-> "heading_3", content |-> <<"a">>]>>

\* C8 as stated: the block text of every line starting with '#' does not
\* include the line's leading '#' markers.
C8_HeaderTextWithoutMarkers ==
    (Blocks_built /\ HasPrefix(TheLine, <<"#">>)) =>
        ExcludesMarkers(TheLine, blocks[1].content)

\* C8 amended: the block text excludes the leading '#' markers exactly for
\* the lines starting with "# ", "## " or "### "; every other line starting
\* with '#' becomes a paragraph whose text is the trimmed line, markers kept.
C8_MarkersRemovedOnlyForHeadings ==
    (Blocks_built /\ HasPrefix(TheLine, <<"#">>)) =>
        IF HashRun(TheLine) <= 3 /\ HasPrefix(After(TheLine, HashRun(TheLine)), <<" ">>)
        THEN /\ blocks[1].type \in {"heading_1", "heading_2", "heading_3"}
             /\ blocks[1].content = RefTrim(After(TheLine, HashRun(TheLine)))
             /\ ExcludesMarkers(TheLine, blocks[1].content)
        ELSE /\ blocks[1].type = "paragraph"
             /\ blocks[1].content = RefTrim(TheLine)
             /\ ~ExcludesMarkers(TheLine, blocks[1].content)

C8_Witness ==
    /\ Blocks_built
    /\ TheLine = <<"#", "#", "#", "#", " ">>
    /\ blocks[1].content = <<"#", "#", "#", "#">>

\* C9 as stated: splitting the empty document returns no section.
C9_EmptyInputNoSections ==
    (Split_done /\ markdown.val = <<>>) => sections = <<>>

\* C9 amended: splitting the empty document returns exactly one section,
\* the empty string (one blank line, which gives no block); when the first
\* line is a header the first section starts with it, so no empty section
\* precedes it.
C9_EmptyInputOneEmptySection ==
    /\ (Split_done /\ markdown.val = <<>>) => sections = << <<>> >>
    /\ (Blocks_built /\ markdown.val = <<>>) => blocks = <<>>
    /\ (Split_done /\ HasPrefix(markdown.val, <<"#">>)) =>
          /\ sections[1] # <<>>
          /\ RefLines(sections[1])[1] = RefLines(markdown.val)[1]

C9_Witness ==
    /\ pc = "done"
    /\ raisedIn = "none"
    /\ markdown.val = <<>>
    /\ sections = << <<>> >>
    /\ requests = <<>>

\* C10: when the request for chunk k is the first that fails, publish has
\* returned false, the page holds its former children followed by the first
\* 100*k blocks, and exactly the requests for chunks 0..k were issued, each
\* once; nothing further happens in that call.
C10_NoRollbackNoRetry ==
    /\ \A j \in 1..Len(requests) : requests[j] = ExpectedChunk(j - 1)
    /\ (outcomes # <<>> /\ Failed(outcomes[Len(outcomes)])) =>
          LET k == Len(outcomes) - 1
          IN /\ pc = "append_returned"
             /\ appendResult = "false"
             /\ page = page0 \o [m \in 1..(100 * k) |-> blocks[m]]
             /\ Len(requests) = k + 1
             /\ ~ENABLED NextPublish

C10_Witness ==
    /\ pc = "append_returned"
    /\ Len(blocks) = 250
    /\ Len(outcomes) = 3
    /\ Failed(outcomes[3])
    /\ Len(page) = Len(page0) + 200

====
